---- MODULE Spec2Model ----
(***************************************************************************)
(* Multi-provider LLM orchestration (app/services/llm_service.py) and the  *)
(* conversation orchestrator (app/services/conversation_service.py).       *)
(*                                                                         *)
(* The event loop is cooperative: a coroutine runs until it awaits a       *)
(* provider call or a vector-index call (run_in_executor / network).       *)
(* Health probes, selection, prompt assembly, post-processing and          *)
(* embedding generation contain no suspension point, so each action below  *)
(* is the code between two suspension points of one request.               *)
(*                                                                         *)
(* Spec, FairSpec and LiveSpec are the generation path over any adapters   *)
(* of the LLMProvider interface, ShippedSpec over the four shipped ones.    *)
(* PromptSpec and ProcessSpec                                              *)
(* apply _build_prompt and _process_response to bounded inputs.  StoreSpec *)
(* is the vector index (app/services/vector_service.py) under the memory   *)
(* and character operations (app/services/character_service.py), one       *)
(* action per operation.  BootSpec is main.lifespan and the health probes. *)
(***************************************************************************)
EXTENDS Integers, Sequences, FiniteSets, Bags, TLC

\* ------------------------------------------------------------------ bounds
NumCalls == 2            \* generate_response requests that can be in flight at once
MaxFaults == 2           \* failures the backends, the index and the helpers inject
MaxHealthChanges == 1    \* times a probe's answer (an adapter's, the index's) changes
                         \* after startup

\* --------------------------------------------------------------- constants
None == "none"

\* LLMService.initialize: "Preferred order: Gemini -> OpenAI -> Anthropic -> HuggingFace"
PreferenceOrder == <<"gemini", "openai", "anthropic", "huggingface">>
Adapters == {PreferenceOrder[i] : i \in 1..Len(PreferenceOrder)}
\* the adapters guarded by `if settings.X_API_KEY:`
NeedsCredential == {"gemini", "openai", "anthropic"}

\* self.model / self.model_name of each adapter
ModelOf(a) ==
    CASE a = "gemini" -> "gemini-pro"
      [] a = "openai" -> "gpt-4"
      [] a = "anthropic" -> "claude-3-sonnet-20240229"
      [] a = "huggingface" -> "microsoft/DialoGPT-medium"

\* what a backend call can raise inside an adapter's generate_response
BackendErrors == {"auth", "quota", "malformed", "timeout"}

VARIABLES
    credentials,   \* the adapters whose API key is set in settings
    initRaised,    \* the adapters whose initialize() raised at startup
    llmState,      \* "Uninitialized" | "Ready" | "Failed" (initialize raised)
    providers,     \* LLMService.providers
    current,       \* LLMService.current_provider (None when unset)
    client,        \* adapter -> its _client / _pipeline is set
    degraded,      \* adapter -> its probe currently answers False (or raises)
    req,           \* the bag of requests being served: position, locals, outcome
    writes,        \* the bag of upserts dispatched to the vector index, unanswered
    faults,        \* failures injected so far
    healthChanges, \* probe changes so far
    context,       \* the ConversationContext handed to _build_prompt
    prompt,        \* the lines of the prompt _build_prompt returned (<<>>: not built)
    llmContent,    \* llm_response.content handed to _process_response, as characters
    processed,     \* the content of the AIResponse _process_response returned
    index,         \* the entries of the vector index
    cache,         \* CharacterService._character_cache
    now,           \* the clock: datetime.utcnow()
    reply,         \* what the last memory or character operation returned to its caller
    appState,      \* main.lifespan: "starting" | "serving" | "failed" (startup raised)
    boot,          \* how VectorService.initialize ended, the adapters that could
                   \* be constructed, and whether the index service answers
    probe,         \* VectorService.is_healthy: "idle", or "awaiting" the index
    probed         \* what the last health probe answered, and how it got the answer

vars == <<credentials, initRaised, llmState, providers, current, client, degraded,
          req, writes, faults, healthChanges, context, prompt, llmContent, processed,
          index, cache, now, reply, appState, boot, probe, probed>>

llmVars == <<credentials, initRaised, llmState, providers, current, client>>
envVars == <<faults, healthChanges>>
genVars == <<llmVars, degraded, req, writes, envVars>>
\* the state of the helpers and of the services beside the generation path
promptVars == <<context, prompt>>
processVars == <<llmContent, processed>>
storeVars == <<index, cache, now, reply>>
bootVars == <<appState, boot, probe, probed>>
restVars == <<promptVars, processVars, storeVars, bootVars>>

\* the environment injects a failure (at most MaxFaults of them)
Inject(failure) ==
    /\ IF failure
       THEN faults < MaxFaults /\ faults' = faults + 1
       ELSE UNCHANGED faults
    /\ UNCHANGED healthChanges

\* no exception / no AIResponse bound yet
NoError == [type |-> None, cause |-> None]
NoResponse ==
    [raised |-> FALSE, content |-> None, confidence |-> 0,
     model_used |-> None, provider |-> None, fallback |-> FALSE]

\* a request as it arrives: no local variable is bound, nothing has happened
Arrived ==
    [pc |-> "arrived",
     \* locals of LLMService.generate_response
     target |-> None,        \* adapter whose generate is in flight
     idx |-> 0,              \* position of the failover loop in providers
     attempts |-> <<>>,      \* adapters whose generate the call invoked, in order
     passedOver |-> {},      \* adapters the failover loop passed without a probe or a call
     epoch |-> 0,            \* healthChanges when the call began
     \* locals of ConversationService.generate_response
     aiResponse |-> NoResponse,  \* ai_response built by _process_response
     \* what happened to the request
     llmOutcome |-> None,    \* how LLMService.generate_response ended
     untried |-> {},         \* adapters neither invoked nor probed when the call
                             \* raised "All LLM providers failed"
     caught |-> NoError,     \* the exception LLMService caught from the last adapter
                             \* it invoked before giving up
     persist |-> None,       \* how the persistence step has gone
     result |-> NoResponse]  \* what ConversationService.generate_response returned

Requests == BagToSet(req)

\* no request stands between `return ai_response` and the endpoint's `return
\* response`: the two are one step of the event loop, nothing else runs between
Delivered == \A r \in Requests : r.pc /= "done"

\* the request in state r goes on as r2
Becomes(r, r2) == req' = (req (-) SetToBag({r})) (+) SetToBag({r2})

Range(s) == {s[i] : i \in 1..Len(s)}

\* ------------------------------------------------------- provider adapters
\* variant: the probe only looks at the client handle
HasClient(cl, dg, a) == cl[a]

\* LLMProvider.is_healthy as GeminiProvider and its three siblings implement it:
\*     try: return self._client is not None
\*     except Exception: return False
\* dg[a] stands for the probe of a raising, or answering False in another
\* implementation of the interface.
IsHealthyIn(cl, dg, a) == cl[a] /\ ~dg[a]

IsHealthy(a) == IsHealthyIn(client, degraded, a)

\* a backend exception object of kind k, as raised by the client library
BackendException(k) == [type |-> k, cause |-> None]

\* <Adapter>.generate_response, failure path:
\*     except Exception as e: logger.error(...); raise
\* the backend's exception leaves the adapter unchanged.
AdapterRaises(a, e) == e

\* <Adapter>.generate_response, success path: the LLMResponse
AdapterResponse(a) ==
    [content |-> "generated", model |-> ModelOf(a), provider |-> a]

\* ------------------------------------------------------------- LLMService
\* LLMService._select_healthy_provider: first adapter of the list whose probe
\* answers True, else None
RECURSIVE SelectFrom(_, _, _, _)
SelectFrom(ps, cl, dg, i) ==
    IF i > Len(ps) THEN None
    ELSE IF IsHealthyIn(cl, dg, ps[i]) THEN ps[i]
    ELSE SelectFrom(ps, cl, dg, i + 1)

SelectHealthyProvider(ps, cl, dg) == SelectFrom(ps, cl, dg, 1)

\* variant: a call that finds no current provider and no healthy adapter
\* falls back on the first adapter of the list
EnsureOrFirst(cur, ps, cl, dg) ==
    IF cur /= None THEN cur
    ELSE IF SelectHealthyProvider(ps, cl, dg) = None /\ ps /= <<>> THEN ps[1]
    ELSE SelectHealthyProvider(ps, cl, dg)

\* variant: every call selects again
Reselect(cur, ps, cl, dg) == SelectHealthyProvider(ps, cl, dg)

\* LLMService.generate_response: `if not self.current_provider: await
\* self._select_healthy_provider()`
EnsureCurrent(cur, ps, cl, dg) ==
    IF cur = None THEN SelectHealthyProvider(ps, cl, dg) ELSE cur

\* the adapters initialize() constructs: `if settings.X_API_KEY:` for the three
\* remote ones, HuggingFace unconditionally
Attempted(creds) == {a \in Adapters : a \notin NeedsCredential \/ a \in creds}

\* variant: an adapter whose initialize() raised is appended all the same
ConstructedUnchecked(creds, raising) ==
    SelectSeq(PreferenceOrder, LAMBDA a : a \in Attempted(creds))

\* the adapters initialize() appends: constructed, and provider.initialize()
\* did not raise (`except Exception as e: logger.warning(...)`), in preference
\* order
Constructed(creds, raising) ==
    SelectSeq(PreferenceOrder, LAMBDA a : a \in Attempted(creds) /\ a \notin raising)

\* LLMService.initialize; main.lifespan calls it once, before any request
Initialize(raising, dg) ==
    /\ llmState = "Uninitialized"
    /\ raising \subseteq Attempted(credentials)
    /\ initRaised' = raising
    /\ LET ps == providers \o Constructed(credentials, raising)
           \* <Adapter>.initialize sets _client / _pipeline, or raises and leaves it None
           cl == [a \in Adapters |-> a \in Attempted(credentials) /\ a \notin raising]
       IN /\ \A a \in Adapters : dg[a] => cl[a]
          /\ providers' = ps
          /\ client' = cl
          /\ degraded' = dg
          /\ IF ps = <<>>
             THEN /\ llmState' = "Failed"     \* RuntimeError("No LLM providers could be initialized")
                  /\ current' = current
             ELSE /\ llmState' = "Ready"
                  /\ current' = SelectHealthyProvider(ps, cl, dg)
    /\ UNCHANGED <<credentials, req, writes, envVars>>

\* the outcome of an adapter's probe changes (LLMProvider.is_healthy is an
\* interface: the registry reads whatever the adapter answers)
HealthChange(a) ==
    /\ llmState = "Ready"
    /\ client[a]
    /\ Delivered
    /\ healthChanges < MaxHealthChanges
    /\ healthChanges' = healthChanges + 1
    /\ degraded' = [degraded EXCEPT ![a] = ~@]
    /\ UNCHANGED <<llmVars, req, writes, faults, restVars>>

\* `if provider != self.current_provider`: the pointer is read again at every
\* iteration of the failover loop
IsOtherProvider(p, cur) == p /= cur

\* the probe guarding a promotion: `if await provider.is_healthy()`
BackupUsable(p) == IsHealthy(p)

\* variant: a promotion is a compare-and-set against the adapter the call saw
\* fail
PromoteIfUnmoved(cur, seen, p) == IF cur = seen THEN p ELSE cur

\* `self.current_provider = provider` of the failover loop: a plain assignment,
\* whatever the pointer holds and whichever adapter the call saw fail
Promote(cur, seen, p) == p

\* the failover loop of LLMService.generate_response from position i on, up to
\* its next suspension point: the position of the adapter it promotes and
\* dispatches to (Len(providers) + 1 when the list is exhausted) and the
\* adapters it passed on the way without probing or calling them
RECURSIVE FailoverScan(_, _)
FailoverScan(i, passed) ==
    IF i > Len(providers) THEN [at |-> i, passedOver |-> passed]
    ELSE IF ~IsOtherProvider(providers[i], current)
         THEN FailoverScan(i + 1, passed \cup {providers[i]})
    ELSE IF BackupUsable(providers[i]) THEN [at |-> i, passedOver |-> passed]
    ELSE FailoverScan(i + 1, passed)

\* ---------------------------------------------------- ConversationService
\* confidence in tenths: _process_response attaches 0.8, the fallback 0.1
DefaultConfidenceTenths == 8
FallbackConfidenceTenths == 1

\* _create_fallback_response draws its content with random.choice from eight
\* stock replies ("Hmm, let me think about that...", ...); StockReply stands
\* for whichever was drawn
StockReply == "stock_reply"

\* ConversationService._create_fallback_response
CreateFallbackResponse ==
    [raised |-> FALSE, content |-> StockReply, confidence |-> FallbackConfidenceTenths,
     model_used |-> "fallback", provider |-> None, fallback |-> TRUE]

\* variant: the exception leaves generate_response for its caller
PropagateToCaller ==
    [raised |-> TRUE, content |-> None, confidence |-> 0,
     model_used |-> None, provider |-> None, fallback |-> FALSE]

\* generate_response: `except Exception as e: ... return self._create_fallback_response()`
OnGenerationFailure == CreateFallbackResponse

\* ConversationService._process_response
ProcessResponse(llm) ==
    [raised |-> FALSE, content |-> llm.content, confidence |-> DefaultConfidenceTenths,
     model_used |-> llm.model, provider |-> llm.provider, fallback |-> FALSE]

\* variant: a persistence failure is handled like a generation failure
FallbackOnPersistenceFailure(resp) == OnGenerationFailure

\* _store_conversation_context / _update_conversation_summary:
\* `except Exception as e: logger.error(...)`, then generate_response goes on
\* to return ai_response
OnPersistenceFailure(resp) == resp

\* the request returns res: the locals of ConversationService.generate_response
\* are gone, what happened to the request stays until it is delivered
Return(r, res) ==
    [r EXCEPT !.pc = "done", !.target = None, !.idx = 0, !.passedOver = {},
              !.aiResponse = NoResponse, !.result = res]

\* a request arrives as r / the request in state r leaves
Admit(r) == req' = req (+) SetToBag({r})
Leave(r) == req' = req (-) SetToBag({r})

\* generate_response up to the first suspension point: prompt assembly, then
\* LLMService.generate_response up to the dispatch to the current provider
Start(promptFails) ==
    /\ llmState = "Ready"
    /\ Delivered
    /\ BagCardinality(req) < NumCalls
    /\ Inject(promptFails)
    /\ LET r == [Arrived EXCEPT !.epoch = healthChanges]
       IN IF promptFails
          THEN /\ Admit(Return(r, OnGenerationFailure))
               /\ UNCHANGED current
          ELSE LET cur == EnsureCurrent(current, providers, client, degraded)
               IN /\ current' = cur
                  /\ IF cur = None
                     THEN \* RuntimeError("No healthy LLM providers available")
                          Admit(Return([r EXCEPT !.llmOutcome = "NoHealthy"],
                                       OnGenerationFailure))
                     ELSE Admit([r EXCEPT !.pc = "awaitPrimary", !.target = cur,
                                          !.attempts = <<cur>>])
    /\ UNCHANGED <<credentials, initRaised, llmState, providers, client, degraded, writes,
                   restVars>>

\* a provider answered: LLMService.generate_response returns the LLMResponse;
\* _process_response, then _store_conversation_context up to the memory upsert
Generated(r, fault) ==
    LET resp == ProcessResponse(AdapterResponse(r.target))
        g == [r EXCEPT !.llmOutcome = "ok", !.attempts = <<>>]
    IN /\ CASE fault = "process" ->
                 /\ Becomes(r, Return(g, OnGenerationFailure))
                 /\ UNCHANGED writes
            [] fault = "embedding" ->
                 /\ Becomes(r, Return([g EXCEPT !.persist = "embedding_failed"],
                                      OnPersistenceFailure(resp)))
                 /\ UNCHANGED writes
            [] fault = None ->
                 /\ Becomes(r, [Return(g, NoResponse) EXCEPT
                                  !.pc = "awaitMemoryUpsert",
                                  !.persist = "memory_upsert",
                                  !.aiResponse = resp])
                 /\ writes' = writes (+) SetToBag({"memory"})
       /\ UNCHANGED current

\* variant: after a failed backup the loop starts over from the head of the list
RestartLoop(i) == 1

\* `except Exception: continue` inside `for provider in self.providers`: the
\* loop goes on with the adapter after the one that failed
ResumeLoop(i) == i + 1

\* variant: a call that exhausts the list unsets the pointer
UnsetOnExhaustion(cur) == None

\* `raise RuntimeError("All LLM providers failed")` after the loop: nothing is
\* assigned to self.current_provider
AfterExhaustion(cur) == cur

\* a provider call failed with e: the failover loop from position i on
Failover(r, e, i) ==
    LET scan == FailoverScan(i, r.passedOver)
    IN /\ IF scan.at > Len(providers)
          THEN \* RuntimeError("All LLM providers failed")
               /\ Becomes(r, Return([r EXCEPT
                                       !.llmOutcome = "AllFailed",
                                       !.untried = scan.passedOver \ Range(r.attempts),
                                       !.caught = AdapterRaises(r.target, e)],
                                    OnGenerationFailure))
               /\ current' = AfterExhaustion(current)
          ELSE /\ current' = Promote(current, r.target, providers[scan.at])
               /\ Becomes(r, [r EXCEPT !.pc = "awaitBackup",
                                       !.target = providers[scan.at],
                                       !.idx = scan.at,
                                       !.attempts = Append(@, providers[scan.at]),
                                       !.passedOver = scan.passedOver])
       /\ UNCHANGED writes

\* `return await self.current_provider.generate_response(request)` resumes
PrimaryReturn(r, out, fault) ==
    /\ r.pc = "awaitPrimary"
    /\ Delivered
    /\ Inject(out /= "ok" \/ fault /= None)
    /\ IF out = "ok"
       THEN Generated(r, fault)
       ELSE fault = None /\ Failover(r, BackendException(out), 1)
    /\ UNCHANGED <<credentials, initRaised, llmState, providers, client, degraded, restVars>>

\* `return await provider.generate_response(request)` of the failover loop
\* resumes; on failure `except Exception: continue`
BackupReturn(r, out, fault) ==
    /\ r.pc = "awaitBackup"
    /\ Delivered
    /\ Inject(out /= "ok" \/ fault /= None)
    /\ IF out = "ok"
       THEN Generated(r, fault)
       ELSE fault = None /\ Failover(r, BackendException(out), ResumeLoop(r.idx))
    /\ UNCHANGED <<credentials, initRaised, llmState, providers, client, degraded, restVars>>

\* VectorService.store_character_memory resumes; on success
\* _update_conversation_summary runs up to the summary upsert
MemoryUpsertReturn(r, fault) ==
    /\ r.pc = "awaitMemoryUpsert"
    /\ Delivered
    /\ Inject(fault /= None)
    /\ BagIn("memory", writes)
    /\ CASE fault = "upsert" ->
              /\ Becomes(r, Return([r EXCEPT !.persist = "memory_failed"],
                                   OnPersistenceFailure(r.aiResponse)))
              /\ writes' = writes (-) SetToBag({"memory"})
         [] fault = "embedding" ->
              /\ Becomes(r, Return([r EXCEPT !.persist = "summary_embedding_failed"],
                                   OnPersistenceFailure(r.aiResponse)))
              /\ writes' = writes (-) SetToBag({"memory"})
         [] fault = None ->
              /\ Becomes(r, [r EXCEPT !.pc = "awaitSummaryUpsert",
                                      !.persist = "summary_upsert"])
              /\ writes' = (writes (-) SetToBag({"memory"})) (+) SetToBag({"summary"})
    /\ UNCHANGED <<llmVars, degraded, restVars>>

\* VectorService.store_conversation_summary resumes
SummaryUpsertReturn(r, fault) ==
    /\ r.pc = "awaitSummaryUpsert"
    /\ Delivered
    /\ Inject(fault /= None)
    /\ BagIn("summary", writes)
    /\ writes' = writes (-) SetToBag({"summary"})
    /\ IF fault = None
       THEN Becomes(r, Return([r EXCEPT !.persist = "stored"], r.aiResponse))
       ELSE Becomes(r, Return([r EXCEPT !.persist = "summary_failed"],
                              OnPersistenceFailure(r.aiResponse)))
    /\ UNCHANGED <<llmVars, degraded, restVars>>

\* api/v1/endpoints/ai.py generate_response: `response = await
\* conversation_service.generate_response(context)`, logging, `return response`;
\* the request is over
Deliver(r) ==
    /\ r.pc = "done"
    /\ Leave(r)
    /\ UNCHANGED <<llmVars, degraded, writes, envVars, restVars>>

\* ------------------------------------- ConversationService._build_prompt
\* A text is the sequence of its lines, each ended by a newline; every block
\* below ends with a newline, so the blocks compose by concatenation.

MaxMessages == 12        \* messages a ConversationContext can carry
TranscriptWindow == 10   \* `context.recent_messages[-10:]`

\* Message: the two fields the prompt reads
Messages ==
    {[character_id |-> "c1", content |-> "Hello! How are you today?"],
     [character_id |-> "c2", content |-> "Fine"]}

RECURSIVE SeqsUpTo(_, _)
\* the sequences over S of length at most n
SeqsUpTo(S, n) ==
    IF n = 0 THEN {<<>>}
    ELSE LET shorter == SeqsUpTo(S, n - 1)
         IN shorter \cup {Append(q, x) : q \in {t \in shorter : Len(t) = n - 1}, x \in S}

\* Character: name and the optional personality_traits
Characters ==
    {[name |-> n, personality_traits |-> t] : n \in {"Nova", "Max"}, t \in {None, "witty"}}

\* ConversationMood values; the field is Optional
Moods == {None, "CASUAL", "FORMAL"}
Topics == {None, "", "Cricket"}
AdditionalContexts == {<<>>, <<[key |-> "event", value |-> "match day"]>>}

\* ConversationContext: the fields _build_prompt reads
Contexts ==
    [current_character : Characters,
     recent_messages : SeqsUpTo(Messages, MaxMessages),
     active_characters : {<<"Nova", "Max">>},
     additional_context : AdditionalContexts,
     current_topic : Topics,
     mood : Moods]

NoContext ==
    [current_character |-> [name |-> None, personality_traits |-> None],
     recent_messages |-> <<>>, active_characters |-> <<>>,
     additional_context |-> <<>>, current_topic |-> None, mood |-> None]

\* `x or ""`
OrEmpty(x) == IF x = None THEN "" ELSE x

RECURSIVE Join(_, _)
\* sep.join(names)
Join(sep, names) ==
    IF names = <<>> THEN ""
    ELSE IF Len(names) = 1 THEN names[1]
    ELSE names[1] \o sep \o Join(sep, Tail(names))

\* character_context; system_prompt, speaking_style and background are unset
CharacterContext(ctx) ==
    <<"",
      "You are " \o ctx.current_character.name \o ", a "
          \o OrEmpty(ctx.current_character.personality_traits) \o " character.",
      "",
      "",
      "Speaking style: ",
      "Background: ">>

MoodAsGiven(mood) == mood

\* `context.mood.value if context.mood else 'CASUAL'`
MoodOrDefault(mood) == IF mood = None THEN "CASUAL" ELSE mood

\* `context.current_topic or 'General conversation'`
TopicOrDefault(topic) == IF topic = None \/ topic = "" THEN "General conversation" ELSE topic

\* conversation_context
SceneContext(ctx) ==
    <<"",
      "You are participating in a group chat with the following members:",
      Join(", ", ctx.active_characters),
      "",
      "Current conversation mood: " \o MoodOrDefault(ctx.mood),
      "Current topic: " \o TopicOrDefault(ctx.current_topic)>>

WholeList(msgs, n) == msgs

\* msgs[-n:]
LastN(msgs, n) ==
    SubSeq(msgs, (IF Len(msgs) > n THEN Len(msgs) - n ELSE 0) + 1, Len(msgs))

\* f"{msg.character_id}: {msg.content}\n"
RenderMessage(msg) == msg.character_id \o ": " \o msg.content

\* messages_context
MessagesContext(ctx) ==
    IF ctx.recent_messages = <<>> THEN <<>>
    ELSE LET window == LastN(ctx.recent_messages, TranscriptWindow)
         IN <<"", "Recent conversation:">>
            \o [i \in 1..Len(window) |-> RenderMessage(window[i])]

\* additional_context
AdditionalContext(ctx) ==
    IF ctx.additional_context = <<>> THEN <<>>
    ELSE <<"", "Additional context:">>
         \o [i \in 1..Len(ctx.additional_context) |->
                ctx.additional_context[i].key \o ": " \o ctx.additional_context[i].value]

Instructions(ctx) ==
    <<"Instructions:",
      "- Respond naturally as " \o ctx.current_character.name,
      "- Keep your response conversational and engaging",
      "- Stay in character based on your personality and background",
      "- Respond to the conversation context appropriately",
      "- Keep responses concise but meaningful",
      "- Use your speaking style consistently",
      "",
      "Respond now:">>

RECURSIVE StripLeading(_)
StripLeading(lines) ==
    IF lines /= <<>> /\ lines[1] = "" THEN StripLeading(Tail(lines)) ELSE lines

RECURSIVE StripTrailing(_)
StripTrailing(lines) ==
    IF lines /= <<>> /\ lines[Len(lines)] = ""
    THEN StripTrailing(SubSeq(lines, 1, Len(lines) - 1))
    ELSE lines

\* prompt.strip(): no line of the prompt begins or ends with white space, so
\* what goes is the blank lines at both ends
StripLines(lines) == StripTrailing(StripLeading(lines))

\* the f-string of _build_prompt, then strip()
BuildPrompt(ctx) ==
    StripLines(<<"">> \o CharacterContext(ctx) \o <<"", "">>
               \o SceneContext(ctx) \o <<"", "">>
               \o MessagesContext(ctx) \o <<"", "">>
               \o AdditionalContext(ctx) \o <<"", "">>
               \o Instructions(ctx))

\* `prompt = await self._build_prompt(context)` in generate_response
CallBuildPrompt ==
    /\ prompt = <<>>
    /\ context /= NoContext
    /\ prompt' = BuildPrompt(context)
    /\ UNCHANGED <<context, genVars, processVars, storeVars, bootVars>>

PromptIdle == context = NoContext /\ prompt = <<>>

\* ---------------------------------- ConversationService._process_response
\* A content is the sequence of its characters.

MAX_RESPONSE_LENGTH == 3   \* settings.MAX_RESPONSE_LENGTH, scaled down from 500
MaxContent == 6            \* characters a backend's content can have

\* the characters a content is made of; the current character is named "N"
Alphabet == {" ", "N", ":", "x"}
CharacterName == <<"N">>

Contents == SeqsUpTo(Alphabet, MaxContent)

RECURSIVE LStrip(_)
LStrip(c) == IF c /= <<>> /\ c[1] = " " THEN LStrip(Tail(c)) ELSE c

RECURSIVE RStrip(_)
RStrip(c) == IF c /= <<>> /\ c[Len(c)] = " " THEN RStrip(SubSeq(c, 1, Len(c) - 1)) ELSE c

\* str.strip()
Strip(c) == RStrip(LStrip(c))

\* content.startswith(prefix)
StartsWith(c, prefix) == Len(c) >= Len(prefix) /\ SubSeq(c, 1, Len(prefix)) = prefix

\* `if content.startswith(f"{name}:"): content = content[len(f"{name}:"):].strip()`
RemoveEcho(c, name) ==
    LET prefix == name \o <<":">>
    IN IF StartsWith(c, prefix) THEN Strip(SubSeq(c, Len(prefix) + 1, Len(c))) ELSE c

Ellipsis == <<".", ".", ".">>

CutWithoutMarker(c) ==
    IF Len(c) > MAX_RESPONSE_LENGTH THEN SubSeq(c, 1, MAX_RESPONSE_LENGTH) ELSE c

\* `if len(content) > MAX_RESPONSE_LENGTH: content = content[:MAX_RESPONSE_LENGTH] + "..."`
Truncate(c) ==
    IF Len(c) > MAX_RESPONSE_LENGTH
    THEN SubSeq(c, 1, MAX_RESPONSE_LENGTH) \o Ellipsis
    ELSE c

\* the content of the AIResponse _process_response builds
ProcessContent(raw, name) == Truncate(RemoveEcho(Strip(raw), name))

NotProcessed == [done |-> FALSE, content |-> <<>>]

\* `ai_response = await self._process_response(llm_response, context)`
CallProcessResponse ==
    /\ ~processed.done
    /\ processed' = [done |-> TRUE, content |-> ProcessContent(llmContent, CharacterName)]
    /\ UNCHANGED <<llmContent, genVars, promptVars, storeVars, bootVars>>

ProcessIdle == llmContent = <<>> /\ processed = NotProcessed

\* ------------------------------------------------------------ VectorService
\* The vector index is a set of entries with distinct ids; an upsert replaces
\* the entry of the same id.  A datetime is a tick of the clock `now`.

CHARACTER_EMBEDDING_DIMENSION == 9   \* settings.CHARACTER_EMBEDDING_DIMENSION, scaled down from 768
DigestWords == 8                     \* a SHA-256 digest is 32 bytes: 8 chunks of 4
MaxRecords == 2                      \* entries the index can hold
MaxTime == 1                         \* ticks of the clock

CharacterIds == {"c1", "c2"}
GroupIds == {"g1"}

\* texts that get embedded; the second word of the digest of "Hello 60" has
\* all exponent bits set (hashlib.sha256(b"Hello 60").digest()[4:8])
Texts == {"Hi", "Hello 60", "character memories"}

\* a float: finite with a value, or not (NaN, inf)
Float(v) == [finite |-> TRUE, v |-> v]
NotFinite == [finite |-> FALSE, v |-> 0]

\* struct.unpack('>f', hash_bytes[i:i+4])[0] for the i-th chunk of sha256(text)
DigestWord(text, i) ==
    CASE text = "Hello 60" /\ i = 2 -> NotFinite
      [] text = "Hi" -> Float(10 + i)
      [] text = "Hello 60" -> Float(20 + i)
      [] OTHER -> Float(30 + i)

\* the loop over the digest: at most `dimension` words
HashWords(text, dimension) ==
    [i \in 1..(IF DigestWords < dimension THEN DigestWords ELSE dimension) |->
        DigestWord(text, i)]

\* `while len(embedding) < self.dimension: embedding.append(0.0)`, then the cut
PadOrCut(words, dimension) ==
    [i \in 1..dimension |-> IF i <= Len(words) THEN words[i] ELSE Float(0)]

AllFinite(words) == \A i \in 1..Len(words) : words[i].finite

\* `norm = sqrt(sum(x*x))`, `if norm > 0: x/norm`: a vector with a word that is
\* not finite has a norm that is not finite and keeps words that are not
\* finite; a finite one that is not zero becomes a unit vector
Normalize(words) ==
    [words |-> words,
     unit |-> AllFinite(words) /\ \E i \in 1..Len(words) : words[i].v /= 0]

\* VectorService.generate_embedding
GenerateEmbedding(text, dimension) ==
    Normalize(PadOrCut(HashWords(text, dimension), dimension))

\* list == list on floats: element by element, and NaN equals nothing
VectorEq(u, v) ==
    /\ Len(u.words) = Len(v.words)
    /\ u.unit = v.unit
    /\ \A i \in 1..Len(u.words) :
          u.words[i].finite /\ v.words[i].finite /\ u.words[i].v = v.words[i].v

\* datetime.timestamp() and datetime.isoformat()
Timestamp(t) == [seconds |-> t]
IsoFormat(t) == [iso |-> t]

\* {**fixed, **extra}: the keys of extra win
Merge(fixed, extra) ==
    [k \in DOMAIN fixed \cup DOMAIN extra |->
        IF k \in DOMAIN extra THEN extra[k] ELSE fixed[k]]

NoMetadata == [k \in {} |-> None]

VectorIdWithContent(m) ==
    <<"memory", m.character_id, m.memory_type, Timestamp(m.created_at), m.content>>

\* f"memory_{memory.character_id}_{memory.memory_type}_{memory.created_at.timestamp()}"
VectorId(m) == <<"memory", m.character_id, m.memory_type, Timestamp(m.created_at)>>

\* the metadata store_character_memory writes
MemoryMetadata(m) ==
    Merge([character_id |-> m.character_id,
           memory_type |-> m.memory_type,
           content |-> m.content,
           importance_score |-> m.importance_score,
           created_at |-> IsoFormat(m.created_at)],
          m.metadata)

\* the entry store_character_memory upserts; memory and via are history: the
\* CharacterMemory it was made from and the operation that wrote it
MemoryEntry(m, embedding, via) ==
    [id |-> VectorId(m), values |-> embedding, metadata |-> MemoryMetadata(m),
     memory |-> m, via |-> via]

\* index.upsert(vectors=[(id, values, metadata)])
Upsert(idx, entry) == {e \in idx : e.id /= entry.id} \cup {entry}

\* what a call to the index backend does: it answers, it cannot be reached, or
\* it refuses a vector that holds a value that is not finite
BackendOutcomes(embedding) ==
    {"ok", "unavailable"} \cup (IF AllFinite(embedding.words) THEN {} ELSE {"rejected"})

\* the metadata filter of index.query: every key of the filter is matched
Matches(entry, filter) ==
    \A k \in DOMAIN filter : k \in DOMAIN entry.metadata /\ entry.metadata[k] = filter[k]

\* cosine similarity in tenths: 10 between a unit vector and itself, less
\* between different ones, not a number when a value is not finite
Score(u, v) ==
    IF ~(AllFinite(u.words) /\ AllFinite(v.words)) THEN NotFinite
    ELSE IF u = v /\ u.unit THEN Float(10)
    ELSE Float(5)

Less(a, b) == a.finite /\ b.finite /\ a.v < b.v

\* the orders in which the backend may rank a set of entries against a query
Rankings(S, embedding) ==
    {s \in [1..Cardinality(S) -> S] :
        /\ \A i, j \in 1..Cardinality(S) : i /= j => s[i] /= s[j]
        /\ \A i, j \in 1..Cardinality(S) :
              i < j => ~Less(Score(s[i].values, embedding), Score(s[j].values, embedding))}

FirstK(s, k) == SubSeq(s, 1, IF Len(s) < k THEN Len(s) ELSE k)

\* the list search_similar_memories / search_conversation_context builds from
\* results.matches
AsMatches(ranking, embedding) ==
    [i \in 1..Len(ranking) |->
        [id |-> ranking[i].id,
         score |-> Score(ranking[i].values, embedding),
         metadata |-> ranking[i].metadata]]

\* the filter of search_similar_memories
MemoryFilter(character_id, memory_type) ==
    IF memory_type = None
    THEN [character_id |-> character_id]
    ELSE [character_id |-> character_id, memory_type |-> memory_type]

\* the results index.query can return
QueryResults(idx, embedding, filter, top_k) ==
    {AsMatches(FirstK(s, top_k), embedding) :
        s \in Rankings({e \in idx : Matches(e, filter)}, embedding)}

\* CharacterMemory(...): created_at defaults to utcnow(); scores are in tenths
CharacterMemory(character_id, memory_type, content, importance_score, created_at, metadata) ==
    [character_id |-> character_id, memory_type |-> memory_type, content |-> content,
     importance_score |-> importance_score, created_at |-> created_at,
     metadata |-> metadata]

NoMemory == CharacterMemory(None, None, None, 0, 0, NoMetadata)

AcceptsAnyScore(score) == TRUE

\* importance_score: float = Field(ge=0.0, le=1.0): construction raises otherwise
ValidScore(score) == 0 <= score /\ score <= 10

\* the summary text of _update_conversation_summary and the entry
\* store_conversation_summary upserts
SummaryText(group_id) == "Conversation in " \o group_id
SummaryEntry(group_id, created_at, embedding) ==
    [id |-> <<"summary", group_id, Timestamp(created_at)>>,
     values |-> embedding,
     metadata |-> [group_id |-> group_id, summary |-> SummaryText(group_id),
                   mood |-> "CASUAL", created_at |-> IsoFormat(created_at),
                   updated_at |-> IsoFormat(created_at)],
     memory |-> NoMemory, via |-> "generate_response"]

\* nothing has been returned to a caller that is still to take it
NoReply == [op |-> None, args |-> NoMetadata, backend |-> None, raised |-> FALSE,
            returned |-> NoMetadata]
Idle == reply.op = None

Respond(op, args, backend, raised, returned) ==
    reply' = [op |-> op, args |-> args, backend |-> backend, raised |-> raised,
              returned |-> returned]

Fits(idx) == Cardinality(idx) <= MaxRecords

Dimension == CHARACTER_EMBEDDING_DIMENSION

\* VectorService.store_character_memory, called with any CharacterMemory
StoreCharacterMemory(m, text, out) ==
    /\ Idle
    /\ out \in BackendOutcomes(GenerateEmbedding(text, Dimension))
    /\ index' = IF out = "ok"
                THEN Upsert(index, MemoryEntry(m, GenerateEmbedding(text, Dimension),
                                               "store_character_memory"))
                ELSE index
    /\ Fits(index')
    /\ Respond("store_character_memory",
               [memory |-> m, text |-> text,
                \* history: the memories whose entry this upsert replaces
                over |-> {e.memory : e \in {x \in index : x.id = VectorId(m)}}],
               out, out /= "ok", [id |-> VectorId(m)])
    /\ UNCHANGED <<cache, now, genVars, promptVars, processVars, bootVars>>

\* VectorService.search_similar_memories with the embedding of a text
SearchSimilarMemories(character_id, text, memory_type, out) ==
    /\ Idle
    /\ out \in BackendOutcomes(GenerateEmbedding(text, Dimension))
    /\ IF out = "ok"
       THEN \E result \in QueryResults(index, GenerateEmbedding(text, Dimension),
                                       MemoryFilter(character_id, memory_type), 5) :
               Respond("search_similar_memories",
                       [character_id |-> character_id, text |-> text,
                        memory_type |-> memory_type],
                       out, FALSE, [memories |-> result])
       ELSE Respond("search_similar_memories",
                    [character_id |-> character_id, text |-> text,
                     memory_type |-> memory_type],
                    out, TRUE, [memories |-> <<>>])
    /\ UNCHANGED <<index, cache, now, genVars, promptVars, processVars, bootVars>>

\* VectorService.delete_character_memories: logs the request, `return 0`
DeletedCount(idx, character_id) == 0

DeleteCharacterMemories(character_id) ==
    /\ Idle
    /\ Respond("delete_character_memories", [character_id |-> character_id], None, FALSE,
               [count |-> DeletedCount(index, character_id)])
    /\ UNCHANGED <<index, cache, now, genVars, promptVars, processVars, bootVars>>

\* -------------------------------------------------------- CharacterService
InCache(character_id) == \E ch \in cache : ch.id = character_id

PersonalityText(prefix, character_id) == prefix \o character_id

\* create_character: the cache, then _create_initial_memory (its failure is
\* logged); the endpoint returns the character
CreateCharacter(character_id, created_at, out) ==
    LET m == CharacterMemory(character_id, "personality",
                             PersonalityText("Character: ", character_id), 10, now,
                             [type |-> "initial_personality",
                              created_at |-> IsoFormat(created_at)])
        embedding == GenerateEmbedding(m.content, Dimension)
    IN /\ Idle
       /\ out \in BackendOutcomes(embedding)
       /\ cache' = {ch \in cache : ch.id /= character_id}
                      \cup {[id |-> character_id, created_at |-> created_at]}
       /\ index' = IF out = "ok"
                   THEN Upsert(index, MemoryEntry(m, embedding, "create_character"))
                   ELSE index
       /\ Fits(index')
       /\ Respond("create_character", [character_id |-> character_id], out, FALSE,
                  [character |-> character_id])
       /\ UNCHANGED <<now, genVars, promptVars, processVars, bootVars>>

\* update_character with a change of personality_traits or system_prompt: None
\* (404) for an unknown character, else _update_character_memory
UpdateCharacter(character_id, out) ==
    LET m == CharacterMemory(character_id, "personality",
                             PersonalityText("Updated character: ", character_id), 10, now,
                             [type |-> "updated_personality", updated_at |-> None])
        embedding == GenerateEmbedding(m.content, Dimension)
    IN /\ Idle
       /\ out \in BackendOutcomes(embedding)
       /\ IF InCache(character_id)
          THEN /\ index' = IF out = "ok"
                           THEN Upsert(index, MemoryEntry(m, embedding, "update_character"))
                           ELSE index
               /\ Respond("update_character", [character_id |-> character_id], out, FALSE,
                          [character |-> character_id])
          ELSE /\ out = "ok"
               /\ index' = index
               /\ Respond("update_character", [character_id |-> character_id], None, FALSE,
                          [character |-> None])
       /\ Fits(index')
       /\ UNCHANGED <<cache, now, genVars, promptVars, processVars, bootVars>>

\* what delete_character and its endpoint tell the caller: `return True`,
\* {"message": "Character deleted successfully"}; the count that
\* delete_character_memories returned is dropped
ReportDeletion(idx, character_id) == [success |-> TRUE]

\* delete_character: the cache entry goes, delete_character_memories is awaited
DeleteCharacter(character_id) ==
    /\ Idle
    /\ cache' = {ch \in cache : ch.id /= character_id}
    /\ index' = index
    /\ Respond("delete_character",
               [character_id |-> character_id,
                count |-> DeletedCount(index, character_id)],
               None, FALSE, ReportDeletion(index, character_id))
    /\ UNCHANGED <<now, genVars, promptVars, processVars, bootVars>>

\* add_character_memory: a CharacterMemory that fails validation is logged and
\* nothing is written; the endpoint answers "Memory added successfully"
AddCharacterMemory(character_id, content, memory_type, importance_score, out) ==
    LET m == CharacterMemory(character_id, memory_type, content, importance_score, now,
                             NoMetadata)
        embedding == GenerateEmbedding(content, Dimension)
    IN /\ Idle
       /\ out \in BackendOutcomes(embedding)
       /\ IF ValidScore(importance_score)
          THEN index' = IF out = "ok"
                        THEN Upsert(index, MemoryEntry(m, embedding, "add_character_memory"))
                        ELSE index
          ELSE out = "ok" /\ index' = index
       /\ Fits(index')
       /\ Respond("add_character_memory",
                  [character_id |-> character_id, importance_score |-> importance_score],
                  out, FALSE, [message |-> "Memory added successfully"])
       /\ UNCHANGED <<cache, now, genVars, promptVars, processVars, bootVars>>

\* CharacterService.get_character_memories: `except Exception: return []`
CharacterGetMemories(character_id, memory_type, out) ==
    LET embedding == GenerateEmbedding("character memories", Dimension)
    IN /\ Idle
       /\ out \in BackendOutcomes(embedding)
       /\ IF out = "ok"
          THEN \E result \in QueryResults(index, embedding,
                                          MemoryFilter(character_id, memory_type), 20) :
                  Respond("character.get_character_memories",
                          [character_id |-> character_id], out, FALSE,
                          [memories |-> result])
          ELSE Respond("character.get_character_memories",
                       [character_id |-> character_id], out, FALSE, [memories |-> <<>>])
       /\ UNCHANGED <<index, cache, now, genVars, promptVars, processVars, bootVars>>

\* enhance_character_personality when the search raised: `return None`
EnhancementOnFailure(character_id, text) ==
    [none |-> TRUE, recent_memories |-> <<>>, context |-> text]

\* enhance_character_personality; the endpoint turns None into 404
EnhanceCharacterPersonality(character_id, text, out) ==
    LET embedding == GenerateEmbedding(text, Dimension)
        args == [character_id |-> character_id, text |-> text,
                 existing |-> InCache(character_id)]
    IN /\ Idle
       /\ out \in BackendOutcomes(embedding)
       /\ IF ~InCache(character_id)
          THEN /\ out = "ok"
               /\ Respond("enhance_character_personality", args, None, TRUE,
                          [none |-> TRUE, recent_memories |-> <<>>, context |-> text])
          ELSE IF out = "ok"
          THEN \E result \in QueryResults(index, embedding,
                                          MemoryFilter(character_id, "conversation"), 5) :
                  Respond("enhance_character_personality", args, out, FALSE,
                          [none |-> FALSE, recent_memories |-> result, context |-> text])
          ELSE LET e == EnhancementOnFailure(character_id, text)
               IN Respond("enhance_character_personality", args, out, e.none, e)
       /\ UNCHANGED <<index, cache, now, genVars, promptVars, processVars, bootVars>>

\* ----------------------------------- ConversationService, the memory paths
\* _store_conversation_context: the memory of the reply, then the summary; a
\* failure ends it and is logged
StoreConversationContext(character_id, group_id, content, out, outSummary) ==
    LET m == CharacterMemory(character_id, "conversation", content, 7, now,
                             [group_id |-> group_id, mood |-> "CASUAL",
                              topic |-> "general"])
        embedding == GenerateEmbedding(content, Dimension)
        summaryEmbedding == GenerateEmbedding(SummaryText(group_id), Dimension)
        withMemory == Upsert(index, MemoryEntry(m, embedding, "generate_response"))
    IN /\ Idle
       /\ out \in BackendOutcomes(embedding)
       /\ outSummary \in BackendOutcomes(summaryEmbedding)
       /\ IF out /= "ok"
          THEN outSummary = "ok" /\ index' = index
          ELSE index' = IF outSummary = "ok"
                        THEN Upsert(withMemory, SummaryEntry(group_id, now, summaryEmbedding))
                        ELSE withMemory
       /\ Fits(index')
       /\ Respond("generate_response", [character_id |-> character_id], out, FALSE,
                  [content |-> content])
       /\ UNCHANGED <<cache, now, genVars, promptVars, processVars, bootVars>>

\* variant: the index keeps the query vector as an entry of its own
QueryRemembered(idx, embedding) ==
    idx \cup {[id |-> <<"query", None, 0>>, values |-> embedding, metadata |-> NoMetadata,
               memory |-> NoMemory, via |-> "query"]}

\* `self._index.query(vector=..., filter=..., top_k=..., include_metadata=True)`
\* reads the index, whether it answers or raises
IndexAfterQuery(idx, embedding) == idx

\* ConversationService.get_character_memories: `except Exception: return []`
ConversationGetMemories(character_id, query, out) ==
    LET embedding == GenerateEmbedding(query, Dimension)
    IN /\ Idle
       /\ out \in BackendOutcomes(embedding)
       /\ IF out = "ok"
          THEN \E result \in QueryResults(index, embedding,
                                          MemoryFilter(character_id, None), 5) :
                  Respond("conversation.get_character_memories",
                          [character_id |-> character_id], out, FALSE,
                          [memories |-> result])
          ELSE Respond("conversation.get_character_memories",
                       [character_id |-> character_id], out, FALSE, [memories |-> <<>>])
       /\ index' = IndexAfterQuery(index, embedding)
       /\ UNCHANGED <<cache, now, genVars, promptVars, processVars, bootVars>>

\* ConversationService.get_conversation_context: `except Exception: return []`
GetConversationContext(group_id, query, out) ==
    LET embedding == GenerateEmbedding(query, Dimension)
    IN /\ Idle
       /\ out \in BackendOutcomes(embedding)
       /\ IF out = "ok"
          THEN \E result \in QueryResults(index, embedding, [group_id |-> group_id], 3) :
                  Respond("get_conversation_context", [group_id |-> group_id], out, FALSE,
                          [memories |-> result])
          ELSE Respond("get_conversation_context", [group_id |-> group_id], out, FALSE,
                       [memories |-> <<>>])
       /\ index' = IndexAfterQuery(index, embedding)
       /\ UNCHANGED <<cache, now, genVars, promptVars, processVars, bootVars>>

\* the caller takes what was returned
ReturnToCaller ==
    /\ ~Idle
    /\ reply' = NoReply
    /\ UNCHANGED <<index, cache, now, genVars, promptVars, processVars, bootVars>>

\* time passes
Tick ==
    /\ Idle
    /\ now < MaxTime
    /\ now' = now + 1
    /\ UNCHANGED <<index, cache, reply, genVars, promptVars, processVars, bootVars>>

StoreIdle == index = {} /\ cache = {} /\ now = 0 /\ reply = NoReply

\* ----------------------------------------------- main.lifespan and health
NotBooted == [vector |-> "pending", constructible |-> <<>>, reachable |-> TRUE]
NoProbe == [pc |-> "idle", interleaved |-> FALSE, by |-> None, stamp |-> 0]
NotProbed ==
    [by |-> None, healthy |-> FALSE, network |-> FALSE, interleaved |-> FALSE,
     stamp |-> 0, before |-> {}]

BootIdle ==
    /\ appState = "starting"
    /\ boot = NotBooted
    /\ probe = NoProbe
    /\ probed = NotProbed

\* lifespan: VectorService.initialize (it re-raises), then
\* LLMService.initialize, then the two services that only keep references;
\* `except Exception: ... raise` ends the startup on the first failure
Lifespan(vectorFails, raising, dg) ==
    /\ appState = "starting"
    /\ raising \subseteq Attempted(credentials)
    /\ boot' = [boot EXCEPT !.vector = IF vectorFails THEN "failed" ELSE "ok",
                            !.constructible = Constructed(credentials, raising)]
    /\ IF vectorFails
       THEN /\ dg = [a \in Adapters |-> FALSE]
            /\ appState' = "failed"
            /\ UNCHANGED genVars
       ELSE /\ Initialize(raising, dg)
            /\ appState' = IF Constructed(credentials, raising) = <<>>
                           THEN "failed"
                           ELSE "serving"
    /\ UNCHANGED <<probe, probed, promptVars, processVars, storeVars>>

\* the index service starts or stops answering describe_index_stats
IndexChange ==
    /\ appState = "serving"
    /\ healthChanges < MaxHealthChanges
    /\ healthChanges' = healthChanges + 1
    /\ boot' = [boot EXCEPT !.reachable = ~@]
    /\ UNCHANGED <<appState, probe, probed, llmVars, degraded, req, writes, faults,
                   promptVars, processVars, storeVars>>

\* a step of another call runs while VectorService.is_healthy is suspended
Interleave ==
    probe' = IF probe.pc = "awaiting" THEN [probe EXCEPT !.interleaved = TRUE] ELSE probe

\* what the earlier probes of `by` answered since the adapters and the index
\* last changed
Earlier(by, stamp) ==
    IF probed.by = by /\ probed.stamp = stamp /\ stamp = healthChanges
    THEN probed.before \cup {probed.healthy}
    ELSE {}

\* a probe of `by` that began at `stamp` answers
Answer(by, healthy, network, interleaved, stamp) ==
    [by |-> by, healthy |-> healthy, network |-> network, interleaved |-> interleaved,
     stamp |-> stamp, before |-> Earlier(by, stamp)]

\* an adapter's is_healthy: `return self._client is not None`
AdapterIsHealthy(a) ==
    /\ appState = "serving"
    /\ a \in Range(providers)
    /\ probed' = Answer(a, IsHealthy(a), FALSE, FALSE, healthChanges)
    /\ Interleave
    /\ UNCHANGED <<appState, boot, genVars, promptVars, processVars, storeVars>>

\* variant: only the first adapter of the list is probed
FirstAdapterHealthy(ps, cl, dg) == ps /= <<>> /\ IsHealthyIn(cl, dg, ps[1])

\* LLMService.is_healthy: `for provider in self.providers: if await
\* provider.is_healthy(): return True`, a raising probe is skipped, `return
\* False` after the loop
AnyAdapterHealthy(ps, cl, dg) == \E i \in 1..Len(ps) : IsHealthyIn(cl, dg, ps[i])

\* LLMService.is_healthy, called by /health and /health/detailed
LLMServiceIsHealthy ==
    /\ appState = "serving"
    /\ probed' = Answer("llm_service", AnyAdapterHealthy(providers, client, degraded),
                        FALSE, FALSE, healthChanges)
    /\ Interleave
    /\ UNCHANGED <<appState, boot, genVars, promptVars, processVars, storeVars>>

\* VectorService.is_healthy up to its await, on behalf of `by`: False without
\* an index, else describe_index_stats is handed to the executor
VectorProbeBegins(by) ==
    /\ probe.pc = "idle"
    /\ IF boot.vector /= "ok"
       THEN /\ probed' = Answer(by, FALSE, FALSE, FALSE, healthChanges)
            /\ UNCHANGED probe
       ELSE /\ probe' = [pc |-> "awaiting", interleaved |-> FALSE, by |-> by,
                         stamp |-> healthChanges]
            /\ UNCHANGED probed

\* VectorService.is_healthy, called by /health and /health/detailed
VectorIsHealthyCall ==
    /\ appState = "serving"
    /\ VectorProbeBegins("vector_service")
    /\ UNCHANGED <<appState, boot, genVars, promptVars, processVars, storeVars>>

\* ConversationService.is_healthy: `await self.llm_service.is_healthy() and
\* await self.vector_service.is_healthy()`; the vector store is probed only
\* when the registry answered True
ConversationIsHealthyCall ==
    /\ appState = "serving"
    /\ probe.pc = "idle"
    /\ IF AnyAdapterHealthy(providers, client, degraded)
       THEN VectorProbeBegins("conversation_service")
       ELSE /\ probed' = Answer("conversation_service", FALSE, FALSE, FALSE, healthChanges)
            /\ UNCHANGED probe
    /\ UNCHANGED <<appState, boot, genVars, promptVars, processVars, storeVars>>

\* describe_index_stats answered or raised: `return stats is not None`,
\* `except Exception: return False`; the caller that awaited it resumes
VectorIsHealthyReturn(answered) ==
    /\ probe.pc = "awaiting"
    /\ answered = boot.reachable
    /\ probed' = Answer(probe.by, answered, TRUE, probe.interleaved, probe.stamp)
    /\ probe' = NoProbe
    /\ UNCHANGED <<appState, boot, genVars, promptVars, processVars, storeVars>>

\* -------------------------------------------------------- specifications
Outcomes == {"ok"} \cup BackendErrors

Init ==
    /\ credentials \in SUBSET NeedsCredential
    /\ initRaised = {}
    /\ llmState = "Uninitialized"
    /\ providers = <<>>
    /\ current = None
    /\ client = [a \in Adapters |-> FALSE]
    /\ degraded = [a \in Adapters |-> FALSE]
    /\ req = EmptyBag
    /\ writes = EmptyBag
    /\ faults = 0
    /\ healthChanges = 0
    /\ PromptIdle
    /\ ProcessIdle
    /\ StoreIdle
    /\ BootIdle

Startup ==
    \E vectorFails \in BOOLEAN, raising \in SUBSET Adapters, dg \in [Adapters -> BOOLEAN] :
        Lifespan(vectorFails, raising, dg)

Environment == \E a \in Adapters : HealthChange(a)

Arrival == \E f \in BOOLEAN : Start(f)

ProviderAnswer(r) ==
    \/ \E out \in Outcomes, f \in {None, "process", "embedding"} : PrimaryReturn(r, out, f)
    \/ \E out \in Outcomes, f \in {None, "process", "embedding"} : BackupReturn(r, out, f)

IndexAnswer(r) ==
    \/ \E f \in {None, "upsert", "embedding"} : MemoryUpsertReturn(r, f)
    \/ \E f \in {None, "upsert"} : SummaryUpsertReturn(r, f)

\* requests arrive at any time and interleave at their suspension points
Next ==
    \/ Startup
    \/ Environment
    \/ Arrival
    \/ \E r \in Requests : ProviderAnswer(r)
    \/ \E r \in Requests : IndexAnswer(r)
    \/ \E r \in Requests : Deliver(r)

Spec == Init /\ [][Next]_vars

\* the event loop resumes a request whose provider call has ended and hands a
\* finished request to its caller; nothing makes the vector index answer
FairSpec ==
    /\ Spec
    /\ WF_vars(\E r \in Requests : ProviderAnswer(r))
    /\ WF_vars(\E r \in Requests : Deliver(r))

\* the four adapters as shipped: is_healthy answers `self._client is not None`
\* (`self._pipeline is not None`), which no method clears, so that no probe
\* raises or changes its answer
ShippedStartup ==
    \E vectorFails \in BOOLEAN, raising \in SUBSET Adapters :
        Lifespan(vectorFails, raising, [a \in Adapters |-> FALSE])

ShippedNext ==
    \/ ShippedStartup
    \/ Arrival
    \/ \E r \in Requests : ProviderAnswer(r)
    \/ \E r \in Requests : IndexAnswer(r)
    \/ \E r \in Requests : Deliver(r)

ShippedSpec == Init /\ [][ShippedNext]_vars

\* every provider call and every vector-index call returns or fails in the
\* end, and the event loop resumes the request that awaited it
LiveSpec ==
    /\ Spec
    /\ WF_vars(\E r \in Requests : ProviderAnswer(r))
    /\ WF_vars(\E r \in Requests : IndexAnswer(r))
    /\ WF_vars(\E r \in Requests : Deliver(r))

\* the generation path at rest: no credential, nothing constructed, no request
GenIdle ==
    /\ credentials = {}
    /\ initRaised = {}
    /\ llmState = "Uninitialized"
    /\ providers = <<>>
    /\ current = None
    /\ client = [a \in Adapters |-> FALSE]
    /\ degraded = [a \in Adapters |-> FALSE]
    /\ req = EmptyBag
    /\ writes = EmptyBag
    /\ faults = 0
    /\ healthChanges = 0

\* _build_prompt applied to every context of the bounded input space
PromptInit ==
    /\ GenIdle
    /\ context \in Contexts
    /\ prompt = <<>>
    /\ ProcessIdle
    /\ StoreIdle
    /\ BootIdle

PromptNext == CallBuildPrompt

PromptSpec == PromptInit /\ [][PromptNext]_vars

\* _process_response applied to every content of the bounded input space
ProcessInit ==
    /\ GenIdle
    /\ PromptIdle
    /\ llmContent \in Contents
    /\ processed = NotProcessed
    /\ StoreIdle
    /\ BootIdle

ProcessNext == CallProcessResponse

ProcessSpec == ProcessInit /\ [][ProcessNext]_vars

\* the inputs of the memory and character operations
StoredContents == {"Hi", "Hello 60"}
FreeFormMetadata == {NoMetadata, [character_id |-> "c2"]}
DirectMemories ==
    {CharacterMemory(c, "fact", t, 5, now, NoMetadata) :
        c \in CharacterIds, t \in StoredContents}
    \cup {CharacterMemory("c1", "fact", "Hi", 5, now, md) : md \in FreeFormMetadata}
GivenScores == {0 - 1, 0, 11}
Backend == {"ok", "unavailable", "rejected"}

StoreInit ==
    /\ GenIdle
    /\ PromptIdle
    /\ ProcessIdle
    /\ StoreIdle
    /\ BootIdle

VectorCall ==
    \/ \E m \in DirectMemories, out \in Backend : StoreCharacterMemory(m, m.content, out)
    \/ \E c \in CharacterIds, t \in StoredContents, out \in Backend :
          SearchSimilarMemories(c, t, None, out)
    \/ \E c \in CharacterIds : DeleteCharacterMemories(c)

CharacterCall ==
    \/ \E c \in CharacterIds, out \in Backend : CreateCharacter(c, 0, out)
    \/ \E c \in CharacterIds, out \in Backend : UpdateCharacter(c, out)
    \/ \E c \in CharacterIds : DeleteCharacter(c)
    \/ \E c \in CharacterIds, score \in GivenScores, out \in Backend :
          AddCharacterMemory(c, "Hi", "conversation", score, out)
    \/ \E c \in CharacterIds, out \in Backend : CharacterGetMemories(c, None, out)
    \/ \E c \in CharacterIds, out \in Backend : EnhanceCharacterPersonality(c, "Hi", out)

ConversationCall ==
    \/ \E c \in CharacterIds, g \in GroupIds, out, out2 \in Backend :
          StoreConversationContext(c, g, "Hi", out, out2)
    \/ \E c \in CharacterIds, out \in Backend : ConversationGetMemories(c, "Hi", out)
    \/ \E g \in GroupIds, out \in Backend : GetConversationContext(g, "Hi", out)

StoreNext ==
    \/ VectorCall
    \/ CharacterCall
    \/ ConversationCall
    \/ ReturnToCaller
    \/ Tick

StoreSpec == StoreInit /\ [][StoreNext]_vars

\* startup, then health probes from /health and /health/detailed at any time
HealthCheck ==
    \/ \E a \in Adapters : AdapterIsHealthy(a)
    \/ LLMServiceIsHealthy
    \/ VectorIsHealthyCall
    \/ ConversationIsHealthyCall
    \/ \E answered \in BOOLEAN : VectorIsHealthyReturn(answered)

BootNext ==
    \/ Startup
    \/ Environment
    \/ IndexChange
    \/ HealthCheck

BootSpec == Init /\ [][BootNext]_vars

\* ----------------------------------------------------------------- claims
Done == {r \in Requests : r.pc = "done"}

PersistenceFailures ==
    {"embedding_failed", "memory_failed", "summary_embedding_failed", "summary_failed"}

\* a step of the generation path failed: the prompt, the provider call or
\* the post-processing, so that the request never reached persistence
GenerationPathFailed(r) == r.llmOutcome /= "ok" \/ r.persist = None

IsFallback(res) ==
    /\ res.fallback
    /\ res.model_used = "fallback"
    /\ res.confidence <= 2

\* C1: generate_response returns an AIResponse and never raises, whatever the
\* provider and vector-store calls do; when a step of the generation path
\* fails (no healthy provider and every provider call failing included) it
\* returns the fallback response: metadata.fallback true, model_used
\* "fallback", confidence <= 0.2.
C1_NeverRaisesFallsBack ==
    \A r \in Done :
        /\ ~r.result.raised
        /\ r.result /= NoResponse
        /\ GenerationPathFailed(r) => IsFallback(r.result)

C1_Witness ==
    \E r \in Done : r.llmOutcome = "AllFailed" /\ IsFallback(r.result)

NoDuplicates(seq) == \A i, j \in 1..Len(seq) : seq[i] = seq[j] => i = j

\* C2: within one call of LLMService.generate_response each adapter's generate
\* is invoked at most once.
C2_InvokedAtMostOnce == \A r \in Requests : NoDuplicates(r.attempts)

\* C3: a call fails with "All LLM providers failed" only when the adapters are
\* exhausted: no call gives up while a healthy adapter was never attempted by
\* it, under every interleaving of calls sharing the current-provider pointer.
C3_AllFailedOnlyWhenExhausted ==
    \A r \in Done :
        r.llmOutcome = "AllFailed" => \A a \in r.untried : ~IsHealthy(a)

HealthyAdapters == {a \in Range(providers) : IsHealthy(a)}

\* C4: with exactly one adapter reporting healthy (and no probe changing its
\* answer during the call), a call whose current provider fails invokes the
\* healthy adapter, and it invokes no unhealthy adapter more than once.
C4_OneHealthyIsInvoked ==
    \A r \in Requests :
        (r.epoch = healthChanges /\ Cardinality(HealthyAdapters) = 1) =>
            /\ r.llmOutcome = "AllFailed" => HealthyAdapters \subseteq Range(r.attempts)
            /\ \A i, j \in 1..Len(r.attempts) :
                   (r.attempts[i] = r.attempts[j] /\ ~IsHealthy(r.attempts[i])) => i = j

PositionOf(a) == CHOOSE i \in 1..Len(PreferenceOrder) : PreferenceOrder[i] = a

\* C5: after initialize the providers are exactly the adapters whose
\* credentials are present (HuggingFace needs none) and whose initialize() did
\* not raise, in preference order; initialize fails ("No LLM providers could
\* be initialized") if and only if that list is empty, and is Ready otherwise.
C5_InitializeRegistry ==
    llmState /= "Uninitialized" =>
        /\ \A a \in Adapters :
               a \in Range(providers) <=>
                   ((a \notin NeedsCredential \/ a \in credentials) /\ a \notin initRaised)
        /\ \A i, j \in 1..Len(providers) :
               i < j => PositionOf(providers[i]) < PositionOf(providers[j])
        /\ llmState = "Failed" <=> providers = <<>>
        /\ llmState = "Ready" <=> providers /= <<>>

C5_Witness ==
    /\ llmState = "Ready"
    /\ credentials = NeedsCredential
    /\ initRaised = {"openai"}
    /\ providers = <<"gemini", "anthropic", "huggingface">>

\* cur is what a scan of ps for the first adapter answering healthy yields
FirstHealthy(cur, ps, cl, dg) ==
    \/ /\ cur = None
       /\ \A i \in 1..Len(ps) : ~(cl[ps[i]] /\ ~dg[ps[i]])
    \/ \E i \in 1..Len(ps) :
           /\ cur = ps[i]
           /\ cl[ps[i]] /\ ~dg[ps[i]]
           /\ \A j \in 1..(i - 1) : ~(cl[ps[j]] /\ ~dg[ps[j]])

\* the steps in which _select_healthy_provider runs: the end of initialize,
\* and a call that finds no current provider (its prompt having been built)
SelectionRuns ==
    \/ llmState = "Uninitialized" /\ llmState' = "Ready"
    \/ /\ llmState = "Ready" /\ current = None
       /\ BagCardinality(req') > BagCardinality(req)
       /\ faults' = faults

\* C6: selection sets the current provider to the first adapter in preference
\* order whose probe answers healthy and unsets it when none is healthy; with
\* the remote adapters unhealthy and the local one healthy it picks the local
\* one and initialization does not fail.
C6_SelectsFirstHealthy ==
    [][SelectionRuns => FirstHealthy(current', providers', client', degraded')]_vars

C6_Witness ==
    /\ llmState = "Ready"
    /\ providers = PreferenceOrder
    /\ \A a \in NeedsCredential : degraded[a]
    /\ current = "huggingface"
    /\ healthChanges = 0

\* a call arrives, its prompt is built, and it finds no current provider and
\* no healthy adapter
CallFindsNoneHealthy ==
    /\ llmState = "Ready" /\ current = None
    /\ HealthyAdapters = {}
    /\ BagCardinality(req') > BagCardinality(req)
    /\ faults' = faults

\* C7: a call that finds no current provider and, after selecting again, no
\* healthy adapter fails with "No healthy LLM providers available", having
\* invoked no adapter's generate, and the current provider stays unset.
C7_NoHealthyLeavesUnset ==
    [][CallFindsNoneHealthy =>
          /\ current' = None
          /\ \E r \in BagToSet(req') :
                 /\ r.pc = "done"
                 /\ r.llmOutcome = "NoHealthy"
                 /\ r.attempts = <<>>]_vars

C7_Witness ==
    \E r \in Done : r.llmOutcome = "NoHealthy" /\ current = None /\ providers /= <<>>

\* C8: a failing adapter raises one uniform "generation failed" error that
\* carries the backend's error as its cause; no backend error kind crosses the
\* adapter boundary.
C8_UniformGenerationError ==
    \A r \in Requests :
        r.caught /= NoError =>
            r.caught.type = "generation_failed" /\ r.caught.cause \in BackendErrors

\* C9: a failure of the embedding, of the memory upsert or of the summary
\* upsert is swallowed: the call returns the response it returns when
\* persistence succeeds (the generated content, confidence 0.8, the model and
\* provider of the adapter that answered), not the fallback and no error.
C9_PersistenceFailureSwallowed ==
    \A r \in Done :
        r.persist \in PersistenceFailures =>
            /\ ~r.result.raised
            /\ ~r.result.fallback
            /\ r.result.content = "generated"
            /\ r.result.confidence = DefaultConfidenceTenths
            /\ r.result.provider \in Range(providers)
            /\ r.result.model_used = ModelOf(r.result.provider)

C9_Witness ==
    \E r \in Done : r.persist = "summary_failed" /\ ~r.result.fallback

AwaitingIndex ==
    \E r \in Requests : r.pc \in {"awaitMemoryUpsert", "awaitSummaryUpsert"}

\* C10: persistence does not block the response: a request that has its
\* response and has dispatched an upsert returns even when the vector index
\* never answers.
C10_ReplyNotDelayedByIndex == AwaitingIndex ~> (Done /= {})

\* ------------------------------------------------- claims on _build_prompt
Built == prompt /= <<>>

RECURSIVE IndexOf(_, _, _)
\* the first position at or after i of line in lines, 0 when there is none
IndexOf(line, lines, i) ==
    IF i > Len(lines) THEN 0
    ELSE IF lines[i] = line THEN i
    ELSE IndexOf(line, lines, i + 1)

RECURSIVE UpToBlank(_, _)
\* the lines from position i up to the next blank line
UpToBlank(lines, i) ==
    IF i > Len(lines) \/ lines[i] = "" THEN <<>>
    ELSE <<lines[i]>> \o UpToBlank(lines, i + 1)

\* the transcript section of a prompt: what follows its heading, up to the
\* blank line that ends the section
TranscriptOf(p) ==
    LET h == IndexOf("Recent conversation:", p, 1)
    IN IF h = 0 THEN <<>> ELSE UpToBlank(p, h + 1)

Min(a, b) == IF a < b THEN a ELSE b

\* C11: the transcript section of the built prompt holds exactly the last
\* min(N, 10) of the N recent messages, oldest first, each as
\* "<character-id>: <content>"; for N > 10 the first N - 10 are absent
C11_TranscriptIsLastTen ==
    Built =>
        LET msgs == context.recent_messages
            N == Len(msgs)
            k == Min(N, 10)
            t == TranscriptOf(prompt)
        IN /\ Len(t) = k
           /\ \A i \in 1..k :
                  t[i] = msgs[N - k + i].character_id \o ": " \o msgs[N - k + i].content

\* a prompt built from 12 messages whose first two differ from the 11th and 12th
C11_Witness ==
    /\ Built
    /\ Len(context.recent_messages) = 12
    /\ context.recent_messages[1] /= context.recent_messages[11]
    /\ context.recent_messages[2] /= context.recent_messages[12]
    /\ Len(TranscriptOf(prompt)) = 10

\* C13: with mood and topic unset the prompt declares the mood CASUAL and the
\* topic General conversation, and the character's name stands in the identity
\* block, which precedes the scene block and the transcript
C13_DefaultsAndIdentity ==
    (Built /\ context.mood = None /\ context.current_topic = None) =>
        LET identity == IndexOf("You are " \o context.current_character.name \o ", a "
                                    \o OrEmpty(context.current_character.personality_traits)
                                    \o " character.", prompt, 1)
            scene == IndexOf("You are participating in a group chat with the following members:",
                             prompt, 1)
            heading == IndexOf("Recent conversation:", prompt, 1)
        IN /\ IndexOf("Current conversation mood: CASUAL", prompt, 1) > scene
           /\ IndexOf("Current topic: General conversation", prompt, 1) > scene
           /\ identity > 0
           /\ identity < scene
           /\ heading > 0 => identity < heading /\ scene < heading

\* the scenario of the specification: Nova, mood and topic unset, one prior message
C13_Witness ==
    /\ Built
    /\ context.current_character.name = "Nova"
    /\ context.mood = None
    /\ context.current_topic = None
    /\ context.recent_messages = <<[character_id |-> "c1", content |-> "Hello! How are you today?"]>>
    /\ prompt[1] = "You are Nova, a  character." \/ prompt[1] = "You are Nova, a witty character."

\* ---------------------------------------------- claims on _process_response
\* the content after white-space stripping and removal of the leading echo
Cleaned == RemoveEcho(Strip(llmContent), CharacterName)

\* C12: a cleaned content longer than MAX_RESPONSE_LENGTH comes back as its
\* first MAX_RESPONSE_LENGTH characters followed by "...", of length exactly
\* MAX_RESPONSE_LENGTH + 3; a content of at most that length comes back as it is
C12_TruncationWithEllipsis ==
    processed.done =>
        IF Len(Cleaned) > MAX_RESPONSE_LENGTH
        THEN /\ Len(processed.content) = MAX_RESPONSE_LENGTH + 3
             /\ SubSeq(processed.content, 1, MAX_RESPONSE_LENGTH)
                    = SubSeq(Cleaned, 1, MAX_RESPONSE_LENGTH)
             /\ SubSeq(processed.content, MAX_RESPONSE_LENGTH + 1, MAX_RESPONSE_LENGTH + 3)
                    = <<".", ".", ".">>
        ELSE processed.content = Cleaned

\* a content that echoes the name and is still over length once cleaned has
\* been cut and marked
C12_Witness ==
    /\ processed.done
    /\ Len(llmContent) > MAX_RESPONSE_LENGTH
    /\ Len(Cleaned) > MAX_RESPONSE_LENGTH
    /\ StartsWith(Strip(llmContent), CharacterName \o <<":">>)
    /\ Len(processed.content) = MAX_RESPONSE_LENGTH + 3

\* ------------------------------------- claims on the vector index and memory
Returned(op) == reply.op = op
Embedded(text) == GenerateEmbedding(text, CHARACTER_EMBEDDING_DIMENSION)
MemoryEntries(idx) == {e \in idx : e.id[1] = "memory"}

\* a search by the character and the text of the one entry the index holds,
\* answered by a backend that could be reached
SingleItemRoundTrip(e) ==
    /\ Returned("search_similar_memories")
    /\ reply.backend /= "unavailable"
    /\ reply.args.memory_type = None
    /\ index = {e}
    /\ e.id[1] = "memory"
    /\ e.memory.character_id = reply.args.character_id
    /\ e.values = Embedded(reply.args.text)

\* C14: on a single-item index, searching with the embedding of the text a
\* memory was stored with returns that memory's record first; and the
\* embedding of a text is the same vector every time, of the configured length
C14_RoundTripRankZero ==
    /\ \A e \in index :
          SingleItemRoundTrip(e) =>
              /\ ~reply.raised
              /\ reply.returned.memories /= <<>>
              /\ reply.returned.memories[1].id = e.id
    /\ (Returned("search_similar_memories") \/ Returned("store_character_memory")) =>
          /\ VectorEq(Embedded(reply.args.text), Embedded(reply.args.text))
          /\ Len(Embedded(reply.args.text).words) = CHARACTER_EMBEDDING_DIMENSION

\* the three fields the claim says the identifier is made of
KeyOf(m) == <<m.character_id, m.memory_type, m.created_at>>

\* C15: the index holds one record for each (character_id, memory_type,
\* created_at), distinct keys have distinct identifiers, and once
\* store_character_memory has returned, the record under the key of the
\* memory it was given is the record of that memory, whatever was there before
C15_IdFromKeyOverwrites ==
    /\ \A e1, e2 \in MemoryEntries(index) :
          /\ KeyOf(e1.memory) = KeyOf(e2.memory) => e1 = e2
          /\ e1.id = e2.id <=> KeyOf(e1.memory) = KeyOf(e2.memory)
    /\ (Returned("store_character_memory") /\ ~reply.raised) =>
          /\ reply.returned.id \in {e.id : e \in index}
          /\ \A e \in MemoryEntries(index) :
                KeyOf(e.memory) = KeyOf(reply.args.memory) => e.memory = reply.args.memory

\* a memory has been stored over a different memory of the same key: the
\* index holds the later one only
C15_Witness ==
    /\ Returned("store_character_memory")
    /\ ~reply.raised
    /\ \E old \in reply.args.over :
          /\ old /= reply.args.memory
          /\ old.content /= reply.args.memory.content
          /\ KeyOf(old) = KeyOf(reply.args.memory)
          /\ \A e \in index : e.memory /= old
    /\ \E e \in index : e.memory = reply.args.memory

MemoryReads ==
    {"conversation.get_character_memories", "get_conversation_context",
     "character.get_character_memories"}

\* C16: with the vector store unavailable, each memory-dependent read returns
\* an empty memory result and reports no error: the three list reads return
\* [], and enhance_character_personality for an existing character returns
\* its result with no memories
C16_ReadsDegradeToEmpty ==
    /\ (reply.op \in MemoryReads /\ reply.backend /= "ok") =>
          ~reply.raised /\ reply.returned.memories = <<>>
    /\ (Returned("enhance_character_personality") /\ reply.args.existing
          /\ reply.backend /= "ok") =>
          /\ ~reply.raised
          /\ ~reply.returned.none
          /\ reply.returned.recent_memories = <<>>

Remaining(idx, character_id) ==
    {e \in MemoryEntries(idx) : e.memory.character_id = character_id}

\* C18: delete_character_memories returns 0 and leaves the index as it was,
\* and delete_character does not report success for "Delete character and
\* all associated memories" while memories of the character remain
C18_DeletionIsBestEffortAndSaysSo ==
    [][/\ (Idle /\ reply'.op = "delete_character_memories") =>
             reply'.returned.count = 0 /\ index' = index
       /\ (Idle /\ reply'.op = "delete_character") =>
             /\ index' = index
             /\ Remaining(index', reply'.args.character_id) /= {} =>
                   ~reply'.returned.success]_vars

WrittenByOperation ==
    {"generate_response", "create_character", "update_character", "add_character_memory"}

\* C19: every memory record that generate_response, create_character,
\* update_character or add_character_memory has written carries an importance
\* score in [0,1] (0..10 tenths), and add_character_memory given a score
\* outside that range writes nothing
C19_ImportanceInUnitInterval ==
    [][/\ \A e \in MemoryEntries(index') :
             e.via \in WrittenByOperation =>
                 0 <= e.metadata.importance_score /\ e.metadata.importance_score <= 10
       /\ (Idle /\ reply'.op = "add_character_memory"
             /\ (reply'.args.importance_score < 0 \/ reply'.args.importance_score > 10)) =>
             index' = index]_vars

\* add_character_memory has just been given 1.1, beside records written by
\* create_character and by generate_response
C19_Witness ==
    /\ Returned("add_character_memory")
    /\ reply.args.importance_score = 11
    /\ \E e \in index : e.via = "create_character" /\ e.metadata.importance_score = 10
    /\ \E e \in index : e.via = "generate_response" /\ e.metadata.importance_score = 7

\* ------------------------------------------------ claims on startup, health
\* C17: a failure to construct the vector store does not end the startup
\* while a provider can be constructed: the service reaches the serving state;
\* the startup fails only when no provider can be constructed
C17_VectorFailureNotFatal ==
    /\ (boot.vector = "failed" /\ boot.constructible /= <<>>) => appState = "serving"
    /\ appState = "failed" => boot.constructible = <<>>

\* C20: no health probe is ever at a suspension point, none makes a network
\* call, and no other call runs inside one
C20_ProbesAreLocal ==
    /\ probe.pc = "idle"
    /\ ~probed.network
    /\ ~probed.interleaved

\* a health probe returned to its caller
ProbeAnswered == probed' /= probed

ServiceProbes == {"llm_service", "conversation_service"}

\* C21: a health probe leaves the provider list and the current-provider
\* pointer as they were; LLMService.is_healthy answers true exactly when at
\* least one adapter of the list reports healthy; and LLMService.is_healthy
\* and ConversationService.is_healthy answer what every earlier call answered
\* since the adapters and the index last changed.
C21_HealthIdempotentReadOnly ==
    [][ProbeAnswered =>
          /\ providers' = providers
          /\ current' = current
          /\ probed'.by = "llm_service" => (probed'.healthy <=> HealthyAdapters' /= {})
          /\ (probed'.by \in ServiceProbes /\ probed'.stamp = healthChanges') =>
                 probed'.before \subseteq {probed'.healthy}]_vars

C21_Witness ==
    /\ probed.by = "conversation_service"
    /\ probed.network
    /\ probed.stamp = healthChanges
    /\ healthChanges = 1
    /\ probed.before = {probed.healthy}
    /\ current /= None

\* --------------------------------------- claims on the current-provider pointer
\* the request that this step promotes an adapter for, as it is after the step
Promoting ==
    {r \in BagToSet(req') : r.pc = "awaitBackup" /\ CopiesIn(r, req') > CopiesIn(r, req)}

\* C22: under every interleaving of generation calls the current-provider
\* pointer is unset or an adapter of the list; only selection and failover
\* promotion write it; a promotion overwrites it with the promoted adapter
\* whatever it held; and a pointer that is set is overwritten by promotions
\* only, so that it holds what the last promotion wrote.
C22_PointerLastWriterWins ==
    [][/\ current' = None \/ current' \in Range(providers')
       /\ \A r \in Promoting : current' = r.target
       /\ current' /= current => (SelectionRuns \/ Promoting /= {})
       /\ (current /= None /\ current' /= current) => Promoting /= {}]_vars

\* a call promoted an adapter and another call has overwritten the pointer since
C22_Witness ==
    /\ \E r \in Requests : r.pc = "awaitBackup" /\ r.target /= current
    /\ \E r \in Requests : r.pc = "awaitBackup" /\ r.target = current

\* ------------------------------------------------------ claims on termination
\* the requests whose state this step leaves / reaches
Left == {r \in BagToSet(req) : CopiesIn(r, req) > CopiesIn(r, req')}
Joined == {r \in BagToSet(req') : CopiesIn(r, req') > CopiesIn(r, req)}

\* an upper bound on the suspension points a request still has before it
\* returns: the rest of the single pass over the list, then the two upserts
Rank(r, ps) ==
    CASE r.pc = "awaitPrimary" -> Len(ps) + 3
      [] r.pc = "awaitBackup" -> Len(ps) - r.idx + 3
      [] r.pc = "awaitMemoryUpsert" -> 2
      [] r.pc = "awaitSummaryUpsert" -> 1
      [] r.pc = "done" -> 0

InFlight == \E r \in Requests : r.pc /= "done"

\* C23: every dispatched call runs to completion or failure.  Each time a
\* provider call or a vector-index call of a request ends, the request is
\* strictly closer to its return (one pass over the adapter list, nothing
\* retried), and while calls are in flight a call returns.
C23_EveryCallReturns ==
    /\ [][\A r \in Left, r2 \in Joined : Rank(r2, providers') < Rank(r, providers)]_vars
    /\ InFlight ~> (Done /= {})

\* a call made the whole pass: its provider and a backup failed, nothing was
\* left untried, and it returned
C23_Witness ==
    \E r \in Done : r.llmOutcome = "AllFailed" /\ Len(r.attempts) = 2 /\ r.untried = {}

\* ------------------------------------------------- claims on memory retrieval
RetrievalOps == {"conversation.get_character_memories", "get_conversation_context"}

\* get_character_memories or get_conversation_context ran and returned
Retrieved == reply.op = None /\ reply'.op \in RetrievalOps

\* C24: get_character_memories and get_conversation_context, whether they
\* succeed or fail, leave the vector index, the character cache, the provider
\* list, the current-provider pointer and every adapter call as they were.
C24_RetrievalIsReadOnly ==
    [][Retrieved =>
          /\ index' = index
          /\ cache' = cache
          /\ current' = current
          /\ providers' = providers
          /\ req' = req]_vars

\* a retrieval the backend failed, while the index and the cache hold records
C24_Witness ==
    /\ reply.op = "get_conversation_context"
    /\ reply.backend = "unavailable"
    /\ reply.returned.memories = <<>>
    /\ index /= {}
    /\ cache /= {}

\* a call arrives / a provider answers a call
ArrivalStep == Left = {} /\ Joined /= {}
SuccessStep ==
    /\ \E r \in Left : r.llmOutcome = None
    /\ \E r \in Joined : r.llmOutcome = "ok"

\* position of adapter a in the list ps (0: not in it)
PositionIn(ps, a) ==
    IF a \in Range(ps) THEN CHOOSE i \in 1..Len(ps) : ps[i] = a ELSE 0

\* a healthy adapter stands before the current provider in preference order
HigherPreferenceHealthy ==
    \E i \in 1..Len(providers) :
        i < PositionIn(providers, current) /\ IsHealthy(providers[i])

\* C25: a call that finds the current provider set does not select again: it
\* leaves the pointer as it is and is dispatched to that adapter first, also
\* while an adapter of higher preference reports healthy; and a call that a
\* provider answers leaves the pointer unchanged.
C25_NoReselection ==
    [][/\ (ArrivalStep /\ current /= None) =>
             /\ current' = current
             /\ \A r \in Joined :
                    IF faults' = faults
                    THEN r.pc = "awaitPrimary" /\ r.target = current
                         /\ r.attempts = <<current>>
                    ELSE r.pc = "done" /\ r.attempts = <<>>
       /\ SuccessStep => current' = current]_vars

\* no probe has changed its answer since startup, so only a promotion moved
\* the pointer: a later call is dispatched to the promoted adapter while the
\* adapter of higher preference reports healthy
C25_Witness ==
    /\ healthChanges = 0
    /\ HigherPreferenceHealthy
    /\ \E r \in Requests :
           r.pc = "awaitPrimary" /\ r.target = current /\ r.epoch = healthChanges
    /\ \A r \in Requests : r.pc = "awaitPrimary"

\* the calls that this step ends with "All LLM providers failed"
Exhausted == {r \in Joined : r.pc = "done" /\ r.llmOutcome = "AllFailed"}

LastOf(seq) == seq[Len(seq)]

C27_ShippedAdaptersStayHealthy ==
    llmState = "Ready" =>
        /\ \A a \in Range(providers) : client[a] /\ IsHealthy(a)
        /\ current /= None
        /\ \A r \in Requests : r.llmOutcome /= "NoHealthy"

\* an adapter could not be initialized, the others were: a call exhausted
\* them, and they report healthy all the same
C27_Witness ==
    /\ llmState = "Ready"
    /\ initRaised /= {}
    /\ Len(providers) >= 2
    /\ \E r \in Done : r.llmOutcome = "AllFailed"
    /\ \A a \in Range(providers) : IsHealthy(a)

\* --------------------------------------------------- claims on persistence
\* the requests that await the answer to an upsert, as a bag
AwaitingUpsert ==
    [r \in {x \in Requests : x.pc \in {"awaitMemoryUpsert", "awaitSummaryUpsert"}} |->
        CopiesIn(r, req)]

\* the call has handed at least its memory record to the index
HasDispatched(r) == r.persist \notin {None, "embedding_failed"}

\* C28: a call that returns the fallback response has dispatched no upsert:
\* persistence is entered only by a call whose provider produced content and
\* whose post-processing succeeded, it returns that content, and every upsert
\* in flight is awaited by such a call.
C28_FallbackWritesNothing ==
    /\ \A r \in Requests :
           /\ (r.pc = "done" /\ r.result.fallback) => ~HasDispatched(r)
           /\ r.persist /= None =>
                  /\ r.llmOutcome = "ok"
                  /\ LET resp == IF r.pc = "done" THEN r.result ELSE r.aiResponse
                     IN /\ resp.provider \in Range(providers)
                        /\ resp = ProcessResponse(AdapterResponse(resp.provider))
    /\ BagCardinality(writes) = BagCardinality(AwaitingUpsert)

\* a provider answered a call whose post-processing failed: it returns the
\* fallback while the upsert of another call is in flight
C28_Witness ==
    /\ \E r \in Done : r.result.fallback /\ r.llmOutcome = "ok" /\ r.persist = None
    /\ writes /= EmptyBag

\* ------------------------------------------- claims on what a search returns
\* C29: search_conversation_context(g), as get_conversation_context calls it,
\* returns only conversation-summary records of group g; no record of a
\* CharacterMemory that generate_response stored is among its results.
C29_ContextSearchReturnsSummariesOnly ==
    Returned("get_conversation_context") =>
        \A i \in 1..Len(reply.returned.memories) :
            /\ reply.returned.memories[i].id[1] = "summary"
            /\ reply.returned.memories[i].id[2] = reply.args.group_id

\* C30: the record store_character_memory writes carries the memory's own
\* character_id, memory_type, content, importance_score and created_at,
\* whatever the memory's free-form metadata holds; hence
\* search_similar_memories(c) returns only records of memories of character c.
C30_MetadataNeverOverridesFixedFields ==
    /\ \A e \in MemoryEntries(index) :
           /\ e.metadata.character_id = e.memory.character_id
           /\ e.metadata.memory_type = e.memory.memory_type
           /\ e.metadata.content = e.memory.content
           /\ e.metadata.importance_score = e.memory.importance_score
           /\ e.metadata.created_at = IsoFormat(e.memory.created_at)
    /\ (Returned("search_similar_memories") /\ ~reply.raised) =>
           \A i \in 1..Len(reply.returned.memories) :
               \A e \in MemoryEntries(index) :
                   e.id = reply.returned.memories[i].id =>
                       e.memory.character_id = reply.args.character_id
====
